---- MODULE Spec2Model ----
(***************************************************************************)
(* Neighborhood generators of ortools/sat/cp_model_lns.cc.                 *)
(*                                                                         *)
(* A generator is constructed once on a model (incidence graph, decision   *)
(* variables, focus flag); Generate calls then read that state and return  *)
(* a restricted copy of the model.                                         *)
(* A C++ vector is a sequence, read with At(s, i) for the C++ s[i].        *)
(***************************************************************************)
EXTENDS Integers, Sequences, FiniteSets, TLC

VARIABLES kind, model_proto_, focus_on_decision_variables_,
          var_to_constraint_, constraint_to_var_,
          decision_variables_, decision_variables_set_,
          arg, pc, loc, random, result

vars == <<kind, model_proto_, focus_on_decision_variables_,
          var_to_constraint_, constraint_to_var_,
          decision_variables_, decision_variables_set_,
          arg, pc, loc, random, result>>

shared == <<kind, model_proto_, focus_on_decision_variables_,
            var_to_constraint_, constraint_to_var_,
            decision_variables_, decision_variables_set_>>

-----------------------------------------------------------------------------
(* Bounds of the model.                                                    *)

\* Generate calls that may be in flight on one generator.
NumCalls == 2
\* Seeds 0..MaxSeed of a call that runs alone.
MaxSeed == 47
\* Seeds 0..MaxSeedConc of calls that run interleaved.
MaxSeedConc == 2

Calls == 1..NumCalls

-----------------------------------------------------------------------------
(* Vectors.                                                                *)

At(s, i) == s[i + 1]

Range(s) == {s[k] : k \in 1..Len(s)}

Swap(s, a, b) == [s EXCEPT ![a] = s[b], ![b] = s[a]]

RECURSIVE SortedSeq(_)
\* The elements of a finite set of integers in increasing order.
SortedSeq(S) ==
  IF S = {} THEN <<>>
  ELSE LET m == CHOOSE x \in S : \A y \in S : x <= y
       IN <<m>> \o SortedSeq(S \ {m})

-----------------------------------------------------------------------------
(* IEEE-754 binary64 arithmetic of the two target-size computations.       *)
(* A double is [m |-> bits, s |-> k], the value m * 2^-k, with m a         *)
(* sequence of bits, least significant first, of at most 53 significant    *)
(* bits.  Operations compute the exact result and round it to nearest,     *)
(* ties to even.                                                           *)

\* Bits of the significand of a double.
MantissaBits == 53

RECURSIVE Trim(_)
Trim(b) == IF b = <<>> \/ b[Len(b)] = 1 THEN b ELSE Trim(SubSeq(b, 1, Len(b) - 1))

RECURSIVE IntOf(_)
IntOf(b) == IF b = <<>> THEN 0 ELSE b[1] + 2 * IntOf(Tail(b))

Bit(b, k) == IF k <= Len(b) THEN b[k] ELSE 0

RECURSIVE AddCarry(_, _, _, _)
AddCarry(a, b, k, carry) ==
  IF k > Len(a) /\ k > Len(b)
  THEN IF carry = 1 THEN <<1>> ELSE <<>>
  ELSE LET t == Bit(a, k) + Bit(b, k) + carry
       IN <<t % 2>> \o AddCarry(a, b, k + 1, t \div 2)

AddBits(a, b) == Trim(AddCarry(a, b, 1, 0))

RECURSIVE SubBorrow(_, _, _, _)
SubBorrow(a, b, k, borrow) ==
  IF k > Len(a) THEN <<>>
  ELSE LET t == Bit(a, k) - Bit(b, k) - borrow
       IN <<t % 2>> \o SubBorrow(a, b, k + 1, IF t < 0 THEN 1 ELSE 0)

\* a - b for a >= b.
SubBits(a, b) == Trim(SubBorrow(a, b, 1, 0))

ShiftLeft(b, k) == IF b = <<>> THEN <<>> ELSE [j \in 1..k |-> 0] \o b

RECURSIVE MulSmall(_, _)
\* b * n for a natural number n.
MulSmall(b, n) ==
  IF n = 0 THEN <<>>
  ELSE AddBits(IF n % 2 = 1 THEN b ELSE <<>>, ShiftLeft(MulSmall(b, n \div 2), 1))

\* The digits of a hexadecimal numeral, most significant first, as bits.
RECURSIVE HexBits(_)
HexBits(h) ==
  IF h = <<>> THEN <<>>
  ELSE LET d == h[Len(h)]
       IN Trim(<<d % 2, (d \div 2) % 2, (d \div 4) % 2, (d \div 8) % 2>>
               \o HexBits(SubSeq(h, 1, Len(h) - 1)))

\* The exact value x rounded to the nearest double, ties to even.
RoundToDouble(x) ==
  IF Len(x.m) <= MantissaBits THEN x
  ELSE LET k      == Len(x.m) - MantissaBits
           q      == SubSeq(x.m, k + 1, Len(x.m))
           guard  == x.m[k]
           sticky == \E j \in 1..(k - 1) : x.m[j] = 1
           up     == guard = 1 /\ (sticky \/ q[1] = 1)
       IN [m |-> IF up THEN AddBits(q, <<1>>) ELSE q, s |-> x.s - k]

\* The exact value of 1 - d, for 0 <= d <= 1.
OneMinusExact(d) == [m |-> SubBits(ShiftLeft(<<1>>, d.s), d.m), s |-> d.s]

\* The exact value of x * n.
TimesExact(x, n) == [m |-> MulSmall(x.m, n), s |-> x.s]

\* The double 1.0 - d.
OneMinus(d) == RoundToDouble(OneMinusExact(d))

\* The double x * n, n a size converted to double.
Times(x, n) == RoundToDouble(TimesExact(x, n))

\* std::ceil of a non-negative value, converted to int.
Ceil(x) ==
  IF x.s <= 0 THEN IntOf(ShiftLeft(x.m, 0 - x.s))
  ELSE LET frac == \E j \in 1..x.s : Bit(x.m, j) = 1
           q    == IF x.s >= Len(x.m) THEN <<>> ELSE SubSeq(x.m, x.s + 1, Len(x.m))
       IN IntOf(q) + (IF frac THEN 1 ELSE 0)

\* The doubles the difficulty is drawn from.
D_0   == [m |-> <<>>, s |-> 0]
D_1   == [m |-> <<1>>, s |-> 0]
D_1_4 == [m |-> <<1>>, s |-> 2]
D_1_2 == [m |-> <<1>>, s |-> 1]
D_3_4 == [m |-> <<1, 1>>, s |-> 2]
\* 0.4 = 0x1.999999999999ap-2
D_0_4 == [m |-> HexBits(<<12, 12, 12, 12, 12, 12, 12, 12, 12, 12, 12, 12, 13>>), s |-> 53]
\* 2.0 / 3.0 = 0x1.5555555555555p-1
D_2_3 == [m |-> HexBits(<<1, 5, 5, 5, 5, 5, 5, 5, 5, 5, 5, 5, 5, 5>>), s |-> 53]

Difficulties == {D_0, D_1_4, D_0_4, D_1_2, D_2_3, D_3_4, D_1}

-----------------------------------------------------------------------------
(* The models a generator is constructed on.  A constraint is the set of   *)
(* variable indices it references; every variable has the domain [0, 9].   *)

NoHint == [vars |-> <<>>, values |-> <<>>]

Domain09(n) == [v \in 1..n |-> <<0, 9>>]

\* 5 variables, c0 = {0,1}, c1 = {1,2}, c2 = {3,4}, no search strategy.
ModelA == [variables |-> Domain09(5), constraints |-> <<{0, 1}, {1, 2}, {3, 4}>>,
           search_strategy |-> <<>>, solution_hint |-> NoHint]
\* 2 variables in one constraint; the model carries a hint of its own.
ModelB == [variables |-> Domain09(2), constraints |-> <<{0, 1}>>,
           search_strategy |-> <<>>,
           solution_hint |-> [vars |-> <<1>>, values |-> <<7>>]]
\* 3 variables in one constraint; variable 2 is declared twice.
ModelC == [variables |-> Domain09(3), constraints |-> <<{0, 1, 2}>>,
           search_strategy |-> <<<<0, 2>>, <<2>>>>, solution_hint |-> NoHint]
\* A chain 0 - 1 - 2 - 3 whose ends are the decision variables.
ModelD == [variables |-> Domain09(4), constraints |-> <<{0, 1}, {1, 2}, {2, 3}>>,
           search_strategy |-> <<<<3, 0>>>>, solution_hint |-> NoHint]
\* 3 variables and no constraint.
ModelE == [variables |-> Domain09(3), constraints |-> <<>>,
           search_strategy |-> <<>>, solution_hint |-> NoHint]
\* An empty constraint, an isolated variable 0 and a path 1 - 2 - 3.
ModelF == [variables |-> Domain09(4), constraints |-> <<{}, {1, 2}, {2, 3}>>,
           search_strategy |-> <<<<1>>, <<3, 1>>>>, solution_hint |-> NoHint]

Models == {ModelA, ModelB, ModelC, ModelD, ModelE, ModelF}

Kinds == {"Simple", "VariableGraph", "ConstraintGraph"}

-----------------------------------------------------------------------------
(* Construction.                                                           *)

\* The variables a constraint uses, sorted and without duplicates.
UsedVariables(ct) == SortedSeq(ct)

NumVariables(model) == Len(model.variables)

NumConstraints(model) == Len(model.constraints)

ConstraintToVar(model) ==
  [ct \in 1..NumConstraints(model) |-> UsedVariables(model.constraints[ct])]

VarToConstraint(model) ==
  [v \in 1..NumVariables(model) |->
     SortedSeq({ct \in 0..(NumConstraints(model) - 1) :
                  (v - 1) \in Range(UsedVariables(At(model.constraints, ct)))})]

RECURSIVE Concat(_)
Concat(ss) == IF ss = <<>> THEN <<>> ELSE Head(ss) \o Concat(Tail(ss))

RECURSIVE Dedup(_, _)
\* The variables of s not in seen, each at its first occurrence.
Dedup(s, seen) ==
  IF s = <<>> THEN <<>>
  ELSE IF Head(s) \in seen THEN Dedup(Tail(s), seen)
  ELSE <<Head(s)>> \o Dedup(Tail(s), seen \cup {Head(s)})

DecisionVariables(model) == Dedup(Concat(model.search_strategy), {})

DecisionVariablesSet(model) ==
  IF Len(model.search_strategy) > 0
  THEN [v \in 1..NumVariables(model) |-> (v - 1) \in Range(DecisionVariables(model))]
  ELSE <<>>

\* No decision variables, then no focus.
FocusOnDecisionVariables(model, focus) ==
  IF DecisionVariables(model) = <<>> THEN FALSE ELSE focus

IsActive(var) ==
  ~focus_on_decision_variables_ \/ At(decision_variables_set_, var)

-----------------------------------------------------------------------------
(* The random engine of a call and the draws made from it.  The engine is  *)
(* a number; a draw from lo..hi takes its residue and leaves the quotient, *)
(* so that the seeds 0..k-1 give every sequence of draws whose ranges      *)
(* multiply to k.                                                          *)

Seed(seed) == seed

\* std::uniform_int_distribution<int>(lo, hi)(random)
UniformInt(r, lo, hi) ==
  [v |-> lo + (r % (hi - lo + 1)), r |-> r \div (hi - lo + 1)]

RECURSIVE ShuffleFrom(_, _, _)
ShuffleFrom(s, k, r) ==
  IF k < 2 THEN [s |-> s, r |-> r]
  ELSE LET d == UniformInt(r, 0, k - 1)
       IN ShuffleFrom(Swap(s, k, d.v + 1), k - 1, d.r)

\* std::shuffle(s.begin(), s.end(), random)
Shuffle(s, r) == ShuffleFrom(s, Len(s), r)

-----------------------------------------------------------------------------
(* FixGivenPosition and RelaxGivenVariables.                               *)

Fatal == [fatal |-> TRUE]

Returned(model) == [fatal |-> FALSE, model |-> model]

RECURSIVE FixDomains(_, _, _)
FixDomains(variables, variables_to_fix, solution) ==
  IF variables_to_fix = <<>> THEN variables
  ELSE LET var == Head(variables_to_fix)
       IN FixDomains([variables EXCEPT ![var + 1] = <<At(solution, var), At(solution, var)>>],
                     Tail(variables_to_fix), solution)

\* The hint without clear_solution_hint(): every variable is added to the
\* hint the model carried.
SolutionHintKept(hint, n, solution) ==
  [vars |-> hint.vars \o [v \in 1..n |-> v - 1],
   values |-> hint.values \o [v \in 1..n |-> At(solution, v - 1)]]

\* Lines 39-43: the hint is cleared, then every variable is added to it.
SolutionHint(hint, n, solution) ==
  [vars |-> [v \in 1..n |-> v - 1], values |-> [v \in 1..n |-> At(solution, v - 1)]]

FixGivenPosition(response, variables_to_fix, model_proto) ==
  IF Len(response) # NumVariables(model_proto) THEN Fatal
  ELSE Returned([model_proto EXCEPT
                   !.variables = FixDomains(@, variables_to_fix, response),
                   !.solution_hint = SolutionHint(@, NumVariables(model_proto), response)])

\* Every variable that is not relaxed, decision variable or not.
FixedVariablesOfAll(relaxed_variables) ==
  SelectSeq([v \in 1..NumVariables(model_proto_) |-> v - 1],
            LAMBDA i : ~At(relaxed_variables, i))

\* The variables RelaxGivenVariables collects in fixed_variables.
FixedVariables(relaxed_variables) ==
  IF focus_on_decision_variables_
  THEN SelectSeq(decision_variables_, LAMBDA i : ~At(relaxed_variables, i))
  ELSE SelectSeq([v \in 1..NumVariables(model_proto_) |-> v - 1],
                 LAMBDA i : ~At(relaxed_variables, i))

RelaxGivenVariables(initial_solution, relaxed_variables) ==
  FixGivenPosition(initial_solution, FixedVariables(relaxed_variables), model_proto_)

-----------------------------------------------------------------------------
(* Generate.  The locals of a call are the record loc[c]; a step of a call *)
(* is an operator from the locals and the engine to the next position,     *)
(* the locals, the engine and, when the call ends, what it returns.        *)

None == [fatal |-> FALSE]

NoLoc == [target_size |-> 0, used_variables |-> <<>>, visited_variables |-> <<>>,
          relaxed_variables |-> <<>>, i |-> 0, added_constraints |-> <<>>,
          next_constraints |-> <<>>, num_relaxed_variables |-> 0,
          fixed_variables |-> <<>>, first |-> 0, iterations |-> 0]

Step(p, l, r, ret) == [pc |-> p, l |-> l, r |-> r, ret |-> ret]

End(l, r, ret) == Step(IF ret.fatal THEN "fatal" ELSE "done", l, r, ret)

AllFalse(n) == [v \in 1..n |-> FALSE]

Mark(mask, i) == [mask EXCEPT ![i + 1] = TRUE]

\* v.resize(n): the first n entries, or v padded with zeros.
Resize(v, n) ==
  IF n <= Len(v) THEN SubSeq(v, 1, n) ELSE v \o [k \in 1..(n - Len(v)) |-> 0]

NumActiveVars ==
  IF focus_on_decision_variables_ THEN Len(decision_variables_)
  ELSE NumVariables(model_proto_)

\* std::ceil(difficulty * num_active_vars)
TargetSize(difficulty) == Ceil(Times(difficulty, NumActiveVars))

\* std::ceil((1.0 - difficulty) * fixed_variables.size())
TargetFixedSize(difficulty, size) == Ceil(Times(OneMinus(difficulty), size))

\* CHECK_GE in the place of CHECK_GT.
CheckTargetSizeNotNegative(target_size) == target_size >= 0

\* CHECK_GT(target_size, 0)
CheckTargetSize(target_size) == target_size > 0

\* The candidate pool of the Simple generator.
Pool ==
  IF focus_on_decision_variables_ THEN decision_variables_
  ELSE [v \in 1..NumVariables(model_proto_) |-> v - 1]

SimpleGenerate(a, r) ==
  LET sh     == Shuffle(Pool, Seed(a.seed))
      target == TargetFixedSize(a.difficulty, Len(Pool))
      fixed  == Resize(sh.s, target)
  IN End([NoLoc EXCEPT !.target_size = target, !.fixed_variables = fixed], sh.r,
         FixGivenPosition(a.initial_solution, fixed, model_proto_))

(* Variable-graph generator. *)

VariableGraphStart(a, r) ==
  LET target == TargetSize(a.difficulty)
  IN IF target = NumActiveVars
     THEN End([NoLoc EXCEPT !.target_size = target], r, Returned(model_proto_))
     ELSE IF ~CheckTargetSize(target)
     THEN End([NoLoc EXCEPT !.target_size = target], r, Fatal)
     ELSE LET d         == UniformInt(Seed(a.seed), 0, NumActiveVars - 1)
              first_var == IF focus_on_decision_variables_
                           THEN At(decision_variables_, d.v) ELSE d.v
          IN Step("vg_loop",
                  [NoLoc EXCEPT !.target_size = target,
                                !.used_variables =
                                   Mark(AllFalse(NumVariables(model_proto_)), first_var),
                                !.visited_variables = <<first_var>>,
                                !.relaxed_variables = <<first_var>>,
                                !.first = first_var],
                  d.r, None)

\* The variables of every constraint, whether var is in it or not.
NeighboursOfAll(var) == Concat(constraint_to_var_)

\* The variables of the first constraint of var only.
NeighboursOfFirst(var) ==
  LET cts == At(var_to_constraint_, var)
  IN IF cts = <<>> THEN <<>> ELSE At(constraint_to_var_, cts[1])

\* The variables of the constraints of var, constraint by constraint.
Neighbours(var) ==
  LET cts == At(var_to_constraint_, var)
  IN Concat([k \in 1..Len(cts) |-> At(constraint_to_var_, cts[k])])

RECURSIVE Collect(_, _, _)
\* Lines 166-175: the not yet used variables among s, marked used.
Collect(s, used, batch) ==
  IF s = <<>> THEN [used |-> used, batch |-> batch]
  ELSE IF At(used, Head(s)) THEN Collect(Tail(s), used, batch)
  ELSE Collect(Tail(s), Mark(used, Head(s)), Append(batch, Head(s)))

\* Line 185: the test that ends the appending of a batch.
TargetReached(relaxed_variables, target_size) ==
  Len(relaxed_variables) >= target_size

RECURSIVE AppendBatch(_, _, _, _)
\* Lines 180-186.
AppendBatch(batch, visited, relaxed, target) ==
  IF batch = <<>> THEN [visited |-> visited, relaxed |-> relaxed]
  ELSE LET to_add == Head(batch)
           v1     == Append(visited, to_add)
           r1     == IF IsActive(to_add) THEN Append(relaxed, to_add) ELSE relaxed
       IN IF TargetReached(r1, target) THEN [visited |-> v1, relaxed |-> r1]
          ELSE AppendBatch(Tail(batch), v1, r1, target)

\* One iteration of the loop of lines 161-188.
VariableGraphExpand(l, r) ==
  LET col    == Collect(Neighbours(At(l.visited_variables, l.i)), l.used_variables, <<>>)
      active == Cardinality({k \in 1..Len(col.batch) : IsActive(col.batch[k])})
      sh     == IF active + Len(l.relaxed_variables) >= l.target_size
                THEN Shuffle(col.batch, r) ELSE [s |-> col.batch, r |-> r]
      app    == AppendBatch(sh.s, l.visited_variables, l.relaxed_variables, l.target_size)
      broke  == Len(app.relaxed) >= l.target_size
      i1     == IF broke THEN l.i ELSE l.i + 1
  IN Step(IF broke \/ ~(i1 < Len(app.visited)) THEN "vg_relax" ELSE "vg_loop",
          [l EXCEPT !.used_variables = col.used, !.visited_variables = app.visited,
                    !.relaxed_variables = app.relaxed, !.i = i1,
                    !.iterations = @ + 1],
          sh.r, None)

\* Lines 192-194.
VariableGraphFinish(a, l, r) ==
  LET mask == [v \in 1..NumVariables(model_proto_) |-> (v - 1) \in Range(l.relaxed_variables)]
  IN End([l EXCEPT !.used_variables = mask, !.fixed_variables = FixedVariables(mask)], r,
         RelaxGivenVariables(a.initial_solution, mask))

(* Constraint-graph generator. *)

\* Lines 200-221.  Without constraints the start is drawn from the empty
\* range 0..-1, which is undefined: the draw is written through an empty
\* added_constraints and then fails the check of line 239, so that every
\* outcome ends the process.
ConstraintGraphStart(a, r) ==
  LET target == TargetSize(a.difficulty)
  IN IF target = NumActiveVars
     THEN End([NoLoc EXCEPT !.target_size = target], r, Returned(model_proto_))
     ELSE IF ~CheckTargetSize(target)
     THEN End([NoLoc EXCEPT !.target_size = target], r, Fatal)
     ELSE IF Len(constraint_to_var_) = 0
     THEN End([NoLoc EXCEPT !.target_size = target], Seed(a.seed), Fatal)
     ELSE LET d == UniformInt(Seed(a.seed), 0, Len(constraint_to_var_) - 1)
          IN Step("cg_loop",
                  [NoLoc EXCEPT !.target_size = target,
                                !.visited_variables = AllFalse(NumVariables(model_proto_)),
                                !.added_constraints =
                                   Mark(AllFalse(Len(constraint_to_var_)), d.v),
                                !.next_constraints = <<d.v>>,
                                !.first = d.v],
                  d.r, None)

\* The test of line 249 left out.
NeverAdded(added_constraints, ct) == FALSE

\* Line 249: whether a constraint is left out of the queue.
AlreadyAdded(added_constraints, ct) == At(added_constraints, ct)

RECURSIVE Enqueue(_, _, _)
\* Lines 248-252.
Enqueue(cts, added, next) ==
  IF cts = <<>> THEN [added |-> added, next |-> next]
  ELSE IF AlreadyAdded(added, Head(cts)) THEN Enqueue(Tail(cts), added, next)
  ELSE Enqueue(Tail(cts), Mark(added, Head(cts)), Append(next, Head(cts)))

RECURSIVE Scan(_, _, _, _, _, _)
\* Lines 242-253.
Scan(s, visited, num, added, next, target) ==
  IF s = <<>> THEN [visited |-> visited, num |-> num, added |-> added, next |-> next]
  ELSE LET var == Head(s)
       IN IF At(visited, var) THEN Scan(Tail(s), visited, num, added, next, target)
          ELSE LET v1 == Mark(visited, var)
                   n1 == IF IsActive(var) THEN num + 1 ELSE num
                   q  == Enqueue(At(var_to_constraint_, var), added, next)
               IN IF n1 = target
                  THEN [visited |-> v1, num |-> n1, added |-> added, next |-> next]
                  ELSE Scan(Tail(s), v1, n1, q.added, q.next, target)

\* One iteration of the loop of lines 225-254.
ConstraintGraphWalk(l, r) ==
  LET d    == UniformInt(r, 0, Len(l.next_constraints) - 1)
      ct   == At(l.next_constraints, d.v)
      rest == SubSeq(Swap(l.next_constraints, d.v + 1, Len(l.next_constraints)),
                     1, Len(l.next_constraints) - 1)
      sh   == Shuffle(At(constraint_to_var_, ct), d.r)
      sc   == Scan(sh.s, l.visited_variables, l.num_relaxed_variables,
                   l.added_constraints, rest, l.target_size)
  IN Step(IF sc.num < l.target_size /\ sc.next # <<>> THEN "cg_loop" ELSE "cg_relax",
          [l EXCEPT !.visited_variables = sc.visited, !.num_relaxed_variables = sc.num,
                    !.added_constraints = sc.added, !.next_constraints = sc.next,
                    !.iterations = @ + 1],
          sh.r, None)

\* Line 255.
ConstraintGraphFinish(a, l, r) ==
  End([l EXCEPT !.fixed_variables = FixedVariables(l.visited_variables)], r,
      RelaxGivenVariables(a.initial_solution, l.visited_variables))

-----------------------------------------------------------------------------
(* The calls.                                                              *)

\* One engine for every call, as a static or a member engine would be.
EngineOfShared(c) == 1

\* The engine of call c: the random_engine_t that is a local of Generate.
EngineOf(c) == c

\* A failed CHECK ends the process and every call in it.
Alive == \A c \in Calls : pc[c] # "fatal"

Take(c, out) ==
  /\ pc' = [pc EXCEPT ![c] = out.pc]
  /\ loc' = [loc EXCEPT ![c] = out.l]
  /\ random' = [random EXCEPT ![EngineOf(c)] = out.r]
  /\ result' = [result EXCEPT ![c] = out.ret]
  /\ UNCHANGED <<shared, arg>>

Simple(c) ==
  /\ Alive /\ kind = "Simple" /\ pc[c] = "idle"
  /\ Take(c, SimpleGenerate(arg[c], random[EngineOf(c)]))

VariableGraphBegin(c) ==
  /\ Alive /\ kind = "VariableGraph" /\ pc[c] = "idle"
  /\ Take(c, VariableGraphStart(arg[c], random[EngineOf(c)]))

VariableGraphLoop(c) ==
  /\ Alive /\ pc[c] = "vg_loop"
  /\ Take(c, VariableGraphExpand(loc[c], random[EngineOf(c)]))

VariableGraphRelax(c) ==
  /\ Alive /\ pc[c] = "vg_relax"
  /\ Take(c, VariableGraphFinish(arg[c], loc[c], random[EngineOf(c)]))

ConstraintGraphBegin(c) ==
  /\ Alive /\ kind = "ConstraintGraph" /\ pc[c] = "idle"
  /\ Take(c, ConstraintGraphStart(arg[c], random[EngineOf(c)]))

ConstraintGraphLoop(c) ==
  /\ Alive /\ pc[c] = "cg_loop"
  /\ Take(c, ConstraintGraphWalk(loc[c], random[EngineOf(c)]))

ConstraintGraphRelax(c) ==
  /\ Alive /\ pc[c] = "cg_relax"
  /\ Take(c, ConstraintGraphFinish(arg[c], loc[c], random[EngineOf(c)]))

Next ==
  \E c \in Calls :
    \/ Simple(c)
    \/ VariableGraphBegin(c)
    \/ VariableGraphLoop(c)
    \/ VariableGraphRelax(c)
    \/ ConstraintGraphBegin(c)
    \/ ConstraintGraphLoop(c)
    \/ ConstraintGraphRelax(c)

-----------------------------------------------------------------------------
(* The state after construction, and the calls to be made.                 *)

\* Incumbents for n variables: two of the right size, one short, one long.
Incumbents(n) ==
  {[v \in 1..k |-> v] : k \in {n - 1, n, n + 1}} \cup {[v \in 1..n |-> 9 - v]}

Args(n, seeds, difficulties) ==
  [initial_solution : Incumbents(n), seed : seeds, difficulty : difficulties]

Constructed(model, focus, k) ==
  /\ kind = k
  /\ model_proto_ = model
  /\ focus_on_decision_variables_ = FocusOnDecisionVariables(model, focus)
  /\ var_to_constraint_ = VarToConstraint(model)
  /\ constraint_to_var_ = ConstraintToVar(model)
  /\ decision_variables_ = DecisionVariables(model)
  /\ decision_variables_set_ = DecisionVariablesSet(model)

NoArg == [initial_solution |-> <<>>, seed |-> 0, difficulty |-> D_0]

\* One call on a generator.
Init ==
  \E model \in Models, focus \in BOOLEAN, k \in Kinds :
    /\ Constructed(model, focus, k)
    /\ \E a \in Args(NumVariables(model), 0..MaxSeed, Difficulties) :
         arg = [c \in Calls |-> IF c = 1 THEN a ELSE NoArg]
    /\ pc = [c \in Calls |-> IF c = 1 THEN "idle" ELSE "unused"]
    /\ loc = [c \in Calls |-> NoLoc]
    /\ random = [c \in Calls |-> 0]
    /\ result = [c \in Calls |-> None]

Spec == Init /\ [][Next]_vars

\* Calls that run interleaved on one generator.
ConcModels == {ModelC}

ConcDifficulties == {D_1_2, D_2_3}

InitConc ==
  \E model \in ConcModels, focus \in BOOLEAN, k \in Kinds :
    /\ Constructed(model, focus, k)
    /\ arg \in [Calls -> [initial_solution : {[v \in 1..NumVariables(model) |-> v]},
                          seed : 0..MaxSeedConc, difficulty : ConcDifficulties]]
    /\ pc = [c \in Calls |-> "idle"]
    /\ loc = [c \in Calls |-> NoLoc]
    /\ random = [c \in Calls |-> 0]
    /\ result = [c \in Calls |-> None]

SpecConc == InitConc /\ [][Next]_vars

-----------------------------------------------------------------------------
(* A call run alone, from its arguments to what it returns.                *)

RECURSIVE Run(_, _)
Run(a, out) ==
  IF out.pc \in {"done", "fatal"} THEN out.ret
  ELSE IF out.pc = "vg_loop" THEN Run(a, VariableGraphExpand(out.l, out.r))
  ELSE IF out.pc = "vg_relax" THEN Run(a, VariableGraphFinish(a, out.l, out.r))
  ELSE IF out.pc = "cg_loop" THEN Run(a, ConstraintGraphWalk(out.l, out.r))
  ELSE Run(a, ConstraintGraphFinish(a, out.l, out.r))

RunAlone(a) ==
  Run(a, IF kind = "Simple" THEN SimpleGenerate(a, 0)
         ELSE IF kind = "VariableGraph" THEN VariableGraphStart(a, 0)
         ELSE ConstraintGraphStart(a, 0))

-----------------------------------------------------------------------------
(* What the claims speak of.                                               *)

Variables == 0..(NumVariables(model_proto_) - 1)

Graph == kind \in {"VariableGraph", "ConstraintGraph"}

Ended(c) == pc[c] \in {"done", "fatal"}

\* The call has left its loop: it is at, or past, RelaxGivenVariables.
Handed(c) ==
  \/ pc[c] \in {"vg_relax", "cg_relax"}
  \/ Graph /\ Ended(c) /\ loc[c].iterations > 0

\* The variables a graph generator has relaxed.
Relaxed(c) ==
  IF kind = "VariableGraph" THEN Range(loc[c].relaxed_variables)
  ELSE {v \in Variables : At(loc[c].visited_variables, v)}

\* The relaxed mask passed to RelaxGivenVariables by a call that is past it.
Mask(c) ==
  IF kind = "VariableGraph" THEN loc[c].used_variables ELSE loc[c].visited_variables

Active == {v \in Variables : IsActive(v)}

\* The variables the returned model fixes to their incumbent value.
FixedIn(c) ==
  {v \in Variables :
     At(result[c].model.variables, v) =
       <<At(arg[c].initial_solution, v), At(arg[c].initial_solution, v)>>}

Constraints == Range(model_proto_.constraints)

RECURSIVE VarClosure(_)
\* The variables linked to S by chains of variables sharing a constraint.
VarClosure(S) ==
  LET T == S \cup UNION {ct \in Constraints : ct \cap S # {}}
  IN IF T = S THEN S ELSE VarClosure(T)

RECURSIVE CtClosure(_)
\* The constraints linked to S by chains of constraints sharing a variable.
CtClosure(S) ==
  LET T == S \cup {ct \in Constraints : \E d \in S : ct \cap d # {}}
  IN IF T = S THEN S ELSE CtClosure(T)

StartConstraint(c) == At(model_proto_.constraints, loc[c].first)

NoDuplicates(s) == \A j, k \in 1..Len(s) : s[j] = s[k] => j = k

-----------------------------------------------------------------------------
(* The claims.                                                             *)

\* C1: a graph generator whose target size lies strictly between 0 and the
\* number of active variables relaxes at most target_size active variables.
C1_RelaxedWithinTarget ==
  \A c \in Calls :
    (Graph /\ pc[c] = "done" /\ loc[c].iterations > 0
       /\ 0 < loc[c].target_size /\ loc[c].target_size < NumActiveVars)
      => Cardinality(Relaxed(c) \cap Active) <= loc[c].target_size

\* C2: when a graph generator reaches RelaxGivenVariables, every relaxed
\* variable is linked to the start: for the Variable-graph generator by a
\* chain of variables sharing a constraint with the start variable, for the
\* Constraint-graph generator by lying in a constraint that a chain of
\* constraints sharing a variable links to the start constraint.
C2_RelaxedReachable ==
  \A c \in Calls :
    Handed(c) =>
      IF kind = "VariableGraph"
      THEN Relaxed(c) \subseteq VarClosure({loc[c].first})
      ELSE Relaxed(c) \subseteq UNION CtClosure({StartConstraint(c)})

\* A walk has relaxed a variable other than its start, or a variable of a
\* constraint other than the start constraint.
C2_Witness ==
  \E c \in Calls :
    /\ Handed(c)
    /\ IF kind = "VariableGraph"
       THEN \E v \in Relaxed(c) :
              v # loc[c].first /\ \A ct \in Constraints : ~({v, loc[c].first} \subseteq ct)
       ELSE \E v \in Relaxed(c) : v \notin StartConstraint(c)

\* C3 as stated: for every selection handed to RelaxGivenVariables, the
\* variables the returned model fixes are exactly those whose relaxed-mask
\* entry is false, so that relaxed and fixed variables are disjoint and
\* together count every variable of the model.
C3_FixedIsComplement ==
  \A c \in Calls :
    (Graph /\ pc[c] = "done" /\ loc[c].iterations > 0) =>
      LET relaxed == {v \in Variables : At(Mask(c), v)}
      IN /\ relaxed \cap FixedIn(c) = {}
         /\ Cardinality(relaxed) + Cardinality(FixedIn(c)) = NumVariables(model_proto_)

\* C3 as amended: relaxed and fixed variables are disjoint, and a variable is
\* fixed exactly when its relaxed-mask entry is false and it is active; the
\* two sets count every variable when focus is disabled.
C3_FixedIsActiveComplement ==
  \A c \in Calls :
    (Graph /\ pc[c] = "done" /\ loc[c].iterations > 0) =>
      LET relaxed == {v \in Variables : At(Mask(c), v)}
      IN /\ relaxed \cap FixedIn(c) = {}
         /\ FixedIn(c) = {v \in Active : ~At(Mask(c), v)}
         /\ ~focus_on_decision_variables_ =>
              Cardinality(relaxed) + Cardinality(FixedIn(c)) = NumVariables(model_proto_)

\* A selection under focus leaves a variable neither relaxed nor fixed, next
\* to a relaxed and a fixed one.
C3_Witness ==
  \E c \in Calls :
    /\ Graph /\ pc[c] = "done" /\ loc[c].iterations > 0
    /\ focus_on_decision_variables_
    /\ FixedIn(c) # {}
    /\ \E v \in Variables : At(Mask(c), v)
    /\ \E v \in Variables : ~At(Mask(c), v) /\ v \notin FixedIn(c)

\* FixGivenPosition has been called by c and has returned.
Restricted(c) ==
  pc[c] = "done" /\ (kind = "Simple" \/ loc[c].iterations > 0)

C4_Restricted ==
  \A c \in Calls :
    Restricted(c) =>
      LET m   == result[c].model
          inc == arg[c].initial_solution
          n   == NumVariables(model_proto_)
      IN /\ Len(inc) = n
         /\ \A v \in Variables :
              At(m.variables, v) =
                IF v \in Range(loc[c].fixed_variables)
                THEN <<At(inc, v), At(inc, v)>>
                ELSE At(model_proto_.variables, v)
         /\ m.constraints = model_proto_.constraints
         /\ m.search_strategy = model_proto_.search_strategy
         /\ m.solution_hint.vars = [k \in 1..n |-> k - 1]
         /\ m.solution_hint.values = inc

\* C4: FixGivenPosition, called with an incumbent of the model's size, returns
\* the model with the listed variables fixed to their incumbent value, the
\* other domains and the constraints as they were, and a hint that lists
\* every variable once, in order, with its incumbent value, whatever hint
\* the model carried; the stored model is not changed.
C4_FixGivenPosition ==
  /\ []C4_Restricted
  /\ [][model_proto_' = model_proto_]_vars

\* A restriction of the model that carries a hint of its own, with a fixed and
\* a free variable.
C4_Witness ==
  \E c \in Calls :
    /\ Restricted(c)
    /\ model_proto_.solution_hint # NoHint
    /\ Range(loc[c].fixed_variables) \notin {{}, Variables}

\* C5: no Generate call whose incumbent has not exactly one entry per
\* variable of the model returns a model.
C5_MismatchIsFatal ==
  \A c \in Calls :
    Len(arg[c].initial_solution) # NumVariables(model_proto_) => pc[c] # "done"

\* The call got a difficulty of 0 or of 1, a model with a variable and a
\* constraint, and an incumbent of the model's size.
Degenerate(c, d) ==
  /\ pc[c] # "unused"
  /\ arg[c].difficulty = d
  /\ NumVariables(model_proto_) >= 1 /\ NumConstraints(model_proto_) >= 1
  /\ Len(arg[c].initial_solution) = NumVariables(model_proto_)

\* C6 as stated: with a difficulty of 0 or of 1, a model with a variable and
\* a constraint, and an incumbent of the model's size, no generator reaches
\* the fatal state.
C6_DegenerateNeverFatal ==
  \A c \in Calls : (Degenerate(c, D_0) \/ Degenerate(c, D_1)) => pc[c] # "fatal"

\* C6 as amended: the Simple generator returns a model for both, fixing its
\* whole pool at difficulty 0 and nothing at difficulty 1; a graph generator
\* returns the stored model at difficulty 1, and at difficulty 0 fails the
\* check of the target size before it draws a start.
C6_DegenerateOutcome ==
  \A c \in Calls :
    /\ (kind = "Simple" /\ Degenerate(c, D_0)) =>
         /\ pc[c] \in {"idle", "done"}
         /\ pc[c] = "done" => FixedIn(c) = Range(Pool)
    /\ (kind = "Simple" /\ Degenerate(c, D_1)) =>
         /\ pc[c] \in {"idle", "done"}
         /\ pc[c] = "done" => FixedIn(c) = {}
    /\ (Graph /\ Degenerate(c, D_1)) =>
         /\ pc[c] \in {"idle", "done"}
         /\ pc[c] = "done" => result[c].model = model_proto_
    /\ (Graph /\ Degenerate(c, D_0)) => pc[c] \in {"idle", "fatal"}

\* A graph generator has failed the check of its target size at difficulty 0.
C6_Witness ==
  \E c \in Calls : Graph /\ Degenerate(c, D_0) /\ pc[c] = "fatal"

\* C7: the Simple generator fixes exactly ceil((1 - difficulty) * |pool|)
\* pairwise distinct variables of its pool and no other variable, and none
\* at difficulty 1.
C7_SimpleFixedCount ==
  \A c \in Calls :
    (kind = "Simple" /\ pc[c] = "done") =>
      LET fixed == loc[c].fixed_variables
      IN /\ Len(fixed) = Ceil(TimesExact(OneMinusExact(arg[c].difficulty), Len(Pool)))
         /\ NoDuplicates(fixed)
         /\ Range(fixed) \subseteq Range(Pool)
         /\ FixedIn(c) = Range(fixed)
         /\ arg[c].difficulty = D_1 => fixed = <<>>

C8_AsAlone == \A c \in Calls : Ended(c) => result[c] = RunAlone(arg[c])

\* C8: a call that runs interleaved with others returns what it returns when
\* run alone on its incumbent, seed and difficulty, and no step changes what
\* construction built.
C8_Independent ==
  /\ []C8_AsAlone
  /\ [][UNCHANGED shared]_vars

\* A call has returned from a walk while another call, with another seed, is
\* in its loop.
C8_Witness ==
  \E c, d \in Calls :
    /\ pc[c] = "done" /\ loc[c].iterations > 0
    /\ pc[d] \in {"vg_loop", "cg_loop"}
    /\ arg[c].seed # arg[d].seed

\* C9: a graph generator relaxes fewer active variables than its target only
\* when the component of its start is exhausted: the Variable-graph generator
\* has then relaxed every active variable linked to its start variable, and
\* the Constraint-graph generator has emptied its queue and visited every
\* variable of every constraint linked to its start constraint.  On the
\* 5-variable model with target 2, a Constraint-graph walk from c2 relaxes
\* {3, 4} and fixes {0, 1, 2}.
C9_ShortOnlyWhenExhausted ==
  \A c \in Calls :
    /\ (kind = "VariableGraph" /\ Handed(c)
          /\ Len(loc[c].relaxed_variables) < loc[c].target_size)
         => (VarClosure({loc[c].first}) \cap Active) \subseteq Relaxed(c)
    /\ (kind = "ConstraintGraph" /\ Handed(c)
          /\ Cardinality(Relaxed(c) \cap Active) < loc[c].target_size)
         => /\ loc[c].next_constraints = <<>>
            /\ UNION CtClosure({StartConstraint(c)}) \subseteq Relaxed(c)
    /\ (kind = "ConstraintGraph" /\ model_proto_ = ModelA /\ pc[c] = "done"
          /\ loc[c].target_size = 2 /\ loc[c].first = 2)
         => Relaxed(c) = {3, 4} /\ FixedIn(c) = {0, 1, 2}

\* A Constraint-graph walk has returned short of its target, with a variable
\* relaxed and a variable out of reach.
C9_Witness ==
  \E c \in Calls :
    /\ kind = "ConstraintGraph" /\ pc[c] = "done" /\ loc[c].iterations > 0
    /\ Cardinality(Relaxed(c) \cap Active) < loc[c].target_size
    /\ Relaxed(c) \notin {{}, Variables}

\* The constraints not yet added, and those added and still in the queue.
QueueMeasure(l) ==
  Len(l.added_constraints) + Len(l.next_constraints)
    - Cardinality({k \in 1..Len(l.added_constraints) : l.added_constraints[k]})

C10_AtMostOnce ==
  \A c \in Calls :
    /\ kind = "VariableGraph" =>
         /\ NoDuplicates(loc[c].visited_variables)
         /\ loc[c].iterations <= NumVariables(model_proto_)
         /\ pc[c] = "vg_loop" => loc[c].i < Len(loc[c].visited_variables)
    /\ kind = "ConstraintGraph" =>
         /\ NoDuplicates(loc[c].next_constraints)
         /\ loc[c].iterations <= NumConstraints(model_proto_)
         /\ loc[c].iterations + Len(loc[c].next_constraints) =
              Cardinality({k \in 1..Len(loc[c].added_constraints) :
                             loc[c].added_constraints[k]})
         /\ pc[c] = "cg_loop" => loc[c].next_constraints # <<>>

\* An iteration that does not leave the loop moves to the next visited
\* variable, respectively takes one constraint out of those still to process.
C10_Decreases ==
  \A c \in Calls :
    (pc[c] = pc'[c] /\ loc[c] # loc'[c]) =>
      /\ pc[c] = "vg_loop" => loc'[c].i = loc[c].i + 1
      /\ pc[c] = "cg_loop" => QueueMeasure(loc'[c]) = QueueMeasure(loc[c]) - 1

\* C10: every call of a graph generator ends: each iteration of its loop
\* that does not leave it advances over the visited sequence, respectively
\* shrinks what is left to process, and the loop runs at most once per
\* variable, respectively per constraint.  The Variable-graph generator
\* appends a variable to its visited sequence at most once, and the
\* Constraint-graph generator queues a constraint at most once and takes one
\* from the queue in each iteration, so that its queue holds no duplicates.
C10_Terminates ==
  /\ []C10_AtMostOnce
  /\ [][C10_Decreases]_vars

\* A Constraint-graph walk has ended after more than one iteration.
C10_Witness ==
  \E c \in Calls :
    kind = "ConstraintGraph" /\ Ended(c) /\ loc[c].iterations >= 2

====
